---- MODULE Spec2Model ----
(***************************************************************************)
(* A model of the product-ops-agent pipeline: scripts/run_all.py spawns    *)
(* scripts/fetch_linear.py, scripts/fetch_sheets.py and                    *)
(* scripts/generate_report.py one after the other; the two fetch scripts   *)
(* leave JSON snapshots under public/data, the report script reads them    *)
(* and writes public/index.html.                                           *)
(*                                                                         *)
(* Spec        the processes and the files they share, over several runs   *)
(* SpecCycles  find_sprint_cycles as a function of the cycles the API      *)
(*             returns, the configured window and the current instant      *)
(* SpecBurn    calculate_burndown as a function of one cycle               *)
(***************************************************************************)
EXTENDS Integers, Sequences, FiniteSets, TLC

VARIABLES
    env,         \* os.environ of the invocation and what it finds on disk
    mode,        \* "none" | "run_all" | "standalone": how the scripts were started
    opc,         \* run_all.py: "idle" | "running" | "exited"
    started,     \* run_all.py: the scripts run_script has started, in order
    rcs,         \* run_all.py: the return codes run_script has returned, in order
    exitCode,    \* run_all.py: its exit status, -1 until it exits
    child,       \* the script now running (or the last one that ran), "none" at first
    cpc,         \* the script's position: "main" | "pods" | "range" | "exited"
    childRc,     \* the script's exit status, -1 until it exits
    net,         \* network requests the script has issued, by endpoint
    ti,          \* fetch_linear.main: index into POD_TEAMS of the pod being fetched
    pods,        \* fetch_linear.main: output["pods"], in POD_TEAMS order
    errPod,      \* fetch_linear.main: index of the pod whose query raised, 0 if none
    sh,          \* fetch_sheets.main: what happened to the token and to the range call
    wrote,       \* whether the script has written its output file
    linearFile,  \* public/data/linear_data.json
    sheetsFile,  \* public/data/sheets_data.json
    htmlFile,    \* public/index.html
    cyc,         \* find_sprint_cycles: cycles as the API returned them, and now
    cycRes,      \* find_sprint_cycles: (current, next) for cyc
    cycRes2,     \* find_sprint_cycles: (current, next) for a reordering of cyc
    burnIn,      \* calculate_burndown: the cycle
    burnOut,     \* calculate_burndown: the series returned
    rdIn,        \* fetch_sheets.py: a sheet row, its name cell and its column-N cell
    rdOut,       \* fetch_sheets.py: what categorize_readiness and parse_initiatives returned
    stIn,        \* aggregate_pod_stats: pod_data
    stOut,       \* aggregate_pod_stats: the stats returned
    paIn,        \* generate_html: the issues of the next cycle of each pod
    paOut,       \* generate_html: pareto_top and pareto_cumulative
    rnIn,        \* generate_report.main: the two snapshot files it finds
    rnOut        \* generate_report.main: its exit status and the report

runVars == <<env, mode, opc, started, rcs, exitCode, child, cpc, childRc, net,
             ti, pods, errPod, sh, wrote, linearFile, sheetsFile, htmlFile>>
cycVars == <<cyc, cycRes, cycRes2>>
burnVars == <<burnIn, burnOut>>
readyVars == <<rdIn, rdOut>>
statsVars == <<stIn, stOut>>
paretoVars == <<paIn, paOut>>
renderVars == <<rnIn, rnOut>>
moreVars == <<readyVars, statsVars, paretoVars, renderVars>>
vars == <<runVars, cycVars, burnVars, moreVars>>

Max(a, b) == IF a >= b THEN a ELSE b
Min(a, b) == IF a <= b THEN a ELSE b
Abs(a) == IF a < 0 THEN -a ELSE a

(***************************************************************************)
(* Configuration                                                           *)
(***************************************************************************)

\* fetch_linear.py POD_TEAMS, in dict (insertion) order
POD_TEAMS == <<"Megapod", "Accounting", "AP", "Cards", "Wallet">>

\* run_all.main: the three run_script calls, in program order
STAGES == <<"fetch_linear.py", "fetch_sheets.py", "generate_report.py">>

\* what fetch_sheets.py finds when it is loaded: which of its variables are
\* set (module level, os.environ.get), and whether the service-account file
\* exists (os.path.exists(sa_path))
GoogleEnvs == [GOOGLE_SHEET_ID : BOOLEAN, GOOGLE_API_KEY : BOOLEAN, sa_exists : BOOLEAN]

\* the environment of an invocation. Only fetch_sheets.py reads the Google
\* part; the model draws it when that script is loaded and holds it FALSE
\* until then.
UnreadGoogle == [GOOGLE_SHEET_ID |-> FALSE, GOOGLE_API_KEY |-> FALSE, sa_exists |-> FALSE]
Env(key, g) == [LINEAR_API_KEY |-> key, GOOGLE_SHEET_ID |-> g.GOOGLE_SHEET_ID,
                GOOGLE_API_KEY |-> g.GOOGLE_API_KEY, sa_exists |-> g.sa_exists]
Envs == {Env(key, UnreadGoogle) : key \in BOOLEAN}

NoNet == [linear |-> 0, token |-> 0, range |-> 0]
NoSheets == [token |-> "untried", range |-> "untried"]
Missing == [exists |-> FALSE]

(***************************************************************************)
(* scripts/run_all.py                                                      *)
(***************************************************************************)

\* the invocation is over: run_all.py has exited, or the script started by
\* hand has
Finished ==
    \/ mode = "run_all" /\ opc = "exited"
    \/ mode = "standalone" /\ cpc = "exited"

\* a variant of MissingRequired: the required list left empty
MissingRequiredNone(e) == FALSE

\* main: required = ["LINEAR_API_KEY"]; missing = [k for k in required if not set]
MissingRequired(e) == ~e.LINEAR_API_KEY

\* a variant of NextScript: a script that returned non-zero is started again
NextScriptRetry(codes) ==
    IF Len(codes) >= Len(STAGES) THEN "none"
    ELSE IF Len(codes) > 0 /\ codes[Len(codes)] # 0 THEN STAGES[Len(codes)]
    ELSE STAGES[Len(codes) + 1]

\* main: the script the n-th run_script call starts once the calls before it
\* have returned codes; "none" once all three have returned
NextScript(codes) ==
    IF Len(codes) < Len(STAGES) THEN STAGES[Len(codes) + 1] ELSE "none"

\* a variant of MainExitStatus: any script's failure fails the run
MainExitStatusAnyFailure(codes) ==
    IF \E i \in 1..Len(codes) : codes[i] # 0 THEN 1 ELSE 0

\* main: "if rc3 != 0: sys.exit(1)", otherwise main returns and the exit status is 0
MainExitStatus(codes) == IF codes[3] # 0 THEN 1 ELSE 0

\* subprocess.run([sys.executable, path]): a fresh child process at the top of
\* its script, with the parent's environment
Spawn(name) ==
    /\ child' = name
    /\ cpc' = "main"
    /\ childRc' = -1
    /\ net' = NoNet
    /\ ti' = 0
    /\ pods' = <<>>
    /\ errPod' = 0
    /\ sh' = NoSheets
    /\ wrote' = FALSE

\* python scripts/run_all.py: the credential check, then the first run_script
RunAllMain(e) ==
    /\ mode = "none"
    /\ env' = e
    /\ mode' = "run_all"
    /\ rcs' = <<>>
    /\ IF MissingRequired(e)
         THEN /\ opc' = "exited"
              /\ exitCode' = 1
              /\ started' = <<>>
              /\ child' = "none"
              /\ cpc' = "exited"
              /\ childRc' = -1
              /\ net' = NoNet
              /\ ti' = 0
              /\ pods' = <<>>
              /\ errPod' = 0
              /\ sh' = NoSheets
              /\ wrote' = FALSE
         ELSE /\ opc' = "running"
              /\ exitCode' = -1
              /\ started' = <<NextScript(<<>>)>>
              /\ Spawn(NextScript(<<>>))
    /\ UNCHANGED <<linearFile, sheetsFile, htmlFile, cycVars, burnVars, moreVars>>

\* run_script returns the child's code; main goes on to the next run_script,
\* or, after the third, to its exit
RunScriptReturn ==
    /\ mode = "run_all"
    /\ opc = "running"
    /\ cpc = "exited"
    /\ rcs' = Append(rcs, childRc)
    /\ IF NextScript(rcs') # "none"
         THEN /\ started' = Append(started, NextScript(rcs'))
              /\ Spawn(NextScript(rcs'))
              /\ UNCHANGED <<opc, exitCode>>
         ELSE /\ opc' = "exited"
              /\ exitCode' = MainExitStatus(rcs')
              /\ UNCHANGED <<started, child, cpc, childRc, net, ti, pods, errPod, sh, wrote>>
    /\ UNCHANGED <<env, mode, linearFile, sheetsFile, htmlFile, cycVars, burnVars, moreVars>>

\* python scripts/<name> run by hand, outside run_all.py
RunStandalone(e, name) ==
    /\ mode = "none"
    /\ env' = e
    /\ mode' = "standalone"
    /\ opc' = "idle"
    /\ started' = <<>>
    /\ rcs' = <<>>
    /\ exitCode' = -1
    /\ Spawn(name)
    /\ UNCHANGED <<linearFile, sheetsFile, htmlFile, cycVars, burnVars, moreVars>>

\* the running script ends with status rc
Exit(rc) ==
    /\ cpc' = "exited"
    /\ childRc' = rc

(***************************************************************************)
(* scripts/fetch_linear.py: main                                           *)
(***************************************************************************)

\* the pods of POD_TEAMS the model fetches
NumPods == 2

\* query_linear: urlopen(req, timeout=30) returns a response or raises
\* (urllib.error.URLError, HTTPError, socket.timeout)
QueryOutcomes == {"ok", "error"}

\* what find_sprint_cycles can return to main: whether a current and a next
\* cycle were resolved (a next cycle only together with a current one)
CyclePairs == {<<FALSE, FALSE>>, <<TRUE, FALSE>>, <<TRUE, TRUE>>}

\* main: pod_data for one pod; the backlog list is initialised empty and is
\* never assigned again
PodData(cur, nxt) == [current |-> cur, next |-> nxt, backlog |-> 0]

\* main, before the loop: the credential check
FetchLinearMain ==
    /\ child = "fetch_linear.py"
    /\ cpc = "main"
    /\ IF ~env.LINEAR_API_KEY
         THEN /\ Exit(1)
              /\ UNCHANGED ti
         ELSE /\ cpc' = "pods"
              /\ ti' = 1
              /\ UNCHANGED childRc
    /\ UNCHANGED <<env, mode, opc, started, rcs, exitCode, child, net, pods, errPod,
                   sh, wrote, linearFile, sheetsFile, htmlFile, cycVars, burnVars, moreVars>>

\* main, one iteration of "for pod_name, team_info in POD_TEAMS.items()":
\* find_sprint_cycles (one query), fetch_cycle_issues for the current cycle and
\* for the next cycle (one query each). No call sits in a try block, so an
\* exception raised by query_linear leaves main and ends the process with
\* status 1.
FetchLinearPod(q1, pair, q2, q3) ==
    /\ child = "fetch_linear.py"
    /\ cpc = "pods"
    /\ ti <= NumPods
    /\ LET cur == pair[1]
           nxt == pair[2]
           raised == \/ q1 = "error"
                     \/ cur /\ q2 = "error"
                     \/ nxt /\ q3 = "error"
           queries == IF q1 = "error" THEN 1
                      ELSE IF cur /\ q2 = "error" THEN 2
                      ELSE 1 + (IF cur THEN 1 ELSE 0) + (IF nxt THEN 1 ELSE 0)
       IN /\ net' = [net EXCEPT !.linear = @ + queries]
          /\ IF raised
               THEN /\ Exit(1)
                    /\ errPod' = ti
                    /\ UNCHANGED <<ti, pods>>
               ELSE /\ pods' = Append(pods, PodData(cur, nxt))
                    /\ ti' = ti + 1
                    /\ UNCHANGED <<cpc, childRc, errPod>>
    /\ UNCHANGED <<env, mode, opc, started, rcs, exitCode, child, sh, wrote,
                   linearFile, sheetsFile, htmlFile, cycVars, burnVars, moreVars>>

\* main, after the loop: json.dump(output) to public/data/linear_data.json
FetchLinearSave ==
    /\ child = "fetch_linear.py"
    /\ cpc = "pods"
    /\ ti > NumPods
    /\ linearFile' = [exists |-> TRUE, pods |-> pods]
    /\ wrote' = TRUE
    /\ Exit(0)
    /\ UNCHANGED <<env, mode, opc, started, rcs, exitCode, child, net, ti, pods, errPod,
                   sh, sheetsFile, htmlFile, cycVars, burnVars, moreVars>>

(***************************************************************************)
(* scripts/fetch_sheets.py: main                                           *)
(***************************************************************************)

\* the longest sheet the range call returns in the model, header row included
MaxRows == 2

\* main: pillar_rows[:5]
PILLAR_PREVIEW == 5

\* the rows of the initiatives tab, each row reduced to its trimmed name cell
SheetRows ==
    {<<>>} \cup {<<"Initiative">> \o names :
                    names \in UNION {[1..n -> {"", "Alpha"}] : n \in 0..(MaxRows - 1)}}

\* the row counts the "Pillar Weekly Update" range can have; -1 when the call
\* raises, which main catches ("except Exception")
PillarOutcomes == {-1, 0, PILLAR_PREVIEW + 1}

\* get_access_token_from_sa: a token; an exception, which main catches; or
\* sys.exit(1) when the cryptography package is missing (SystemExit is no
\* Exception, so main's "except Exception" lets it through)
TokenOutcomes == {"ok", "failed", "sys_exit"}

\* fetch_sheet_range once the request is sent: rows; urllib.error.HTTPError;
\* any other urllib.error.URLError or socket.timeout
RangeOutcomes == {"ok", "http_error", "url_error"}

\* main: "if not GOOGLE_SHEET_ID: sys.exit(1)"
SheetIdMissing(e) == ~e.GOOGLE_SHEET_ID

\* fetch_sheet_range: "if access_token ... elif GOOGLE_API_KEY ... else raise
\* ValueError": whether a request can be built
HasCredentials(e, token) == token = "ok" \/ e.GOOGLE_API_KEY

\* main: "try: rows = fetch_sheet_range(...) except urllib.error.HTTPError:
\* rows = []": the outcomes of the range call that main survives
RangeCallSurvived(r) == r \in {"ok", "http_error"}

\* parse_initiatives, counted: the rows after the header whose name is not empty
ParsedCount(rows) ==
    Cardinality({i \in 2..Len(rows) : rows[i] # ""})

\* main: "access_error": len(rows) == 0
AccessError(rows) == Len(rows) = 0

\* main, up to the range call: the module is loaded and reads its variables;
\* the sheet-id check; the service-account token when the file exists
FetchSheetsMain(g, tok, tokreq) ==
    /\ child = "fetch_sheets.py"
    /\ cpc = "main"
    /\ env' = Env(env.LINEAR_API_KEY, g)
    /\ LET token == IF SheetIdMissing(env') \/ ~env'.sa_exists THEN "untried" ELSE tok
           tokenReqs == CASE token = "ok" -> 1
                          [] token = "failed" -> tokreq
                          [] OTHER -> 0
       IN /\ sh' = [sh EXCEPT !.token = token]
          /\ net' = [net EXCEPT !.token = tokenReqs]
          /\ IF SheetIdMissing(env') \/ token = "sys_exit"
               THEN Exit(1)
               ELSE /\ cpc' = "range"
                    /\ UNCHANGED childRc
    /\ UNCHANGED <<mode, opc, started, rcs, exitCode, child, ti, pods, errPod, wrote,
                   linearFile, sheetsFile, htmlFile, cycVars, burnVars, moreVars>>

\* main, from the range call on: the initiatives range, parse_initiatives, the
\* pillar range, the snapshot
FetchSheetsRange(r, fetched, pr) ==
    /\ child = "fetch_sheets.py"
    /\ cpc = "range"
    /\ LET range == IF ~HasCredentials(env, sh.token) THEN "no_credentials" ELSE r
           survived == RangeCallSurvived(range)
           rangeReqs == IF range \in RangeOutcomes
                          THEN (IF survived THEN 2 ELSE 1)
                          ELSE 0
           rows == IF range = "ok" THEN fetched ELSE <<>>
           pillar == IF pr < 0 THEN 0 ELSE Min(pr, PILLAR_PREVIEW)
       IN /\ sh' = [sh EXCEPT !.range = range]
          /\ net' = [net EXCEPT !.range = rangeReqs]
          /\ IF survived
               THEN /\ sheetsFile' = [exists |-> TRUE,
                                      initiatives |-> ParsedCount(rows),
                                      access_error |-> AccessError(rows),
                                      pillar_weekly_rows |-> pillar]
                    /\ wrote' = TRUE
                    /\ Exit(0)
               ELSE /\ Exit(1)
                    /\ UNCHANGED <<sheetsFile, wrote>>
    /\ UNCHANGED <<env, mode, opc, started, rcs, exitCode, child, ti, pods, errPod,
                   linearFile, htmlFile, cycVars, burnVars, moreVars>>

(***************************************************************************)
(* scripts/generate_report.py: main                                        *)
(***************************************************************************)

\* generate_html: current_stats / next_stats are built from the pods of the
\* tracker snapshot that have a current (a next) cycle; load_json gives {} for
\* a missing file, and then there are no pods
LinearShown(f) ==
    IF f.exists /\ \E i \in 1..Len(f.pods) : f.pods[i].current
      THEN "shown" ELSE "none"

\* generate_html: sheets_error = sheets.get("access_error", True)
SheetsError(f) == IF f.exists THEN f.access_error ELSE TRUE

\* generate_html: the initiative tables are rendered from by_stage unless
\* sheets_error is set
SheetsShown(f) ==
    IF ~SheetsError(f) /\ f.initiatives > 0 THEN "shown" ELSE "none"

\* the whole of main: load both snapshots, generate_html, write index.html;
\* the write can fail (OSError), which ends the process with status 1
GenerateReportMain(write_ok) ==
    /\ child = "generate_report.py"
    /\ cpc = "main"
    /\ IF write_ok
         THEN /\ htmlFile' = [exists |-> TRUE,
                              linear_data |-> LinearShown(linearFile),
                              sheets_notice |-> SheetsError(sheetsFile),
                              sheets_data |-> SheetsShown(sheetsFile)]
              /\ wrote' = TRUE
              /\ Exit(0)
         ELSE /\ Exit(1)
              /\ UNCHANGED <<htmlFile, wrote>>
    /\ UNCHANGED <<env, mode, opc, started, rcs, exitCode, child, net, ti, pods, errPod,
                   sh, linearFile, sheetsFile, cycVars, burnVars, moreVars>>

(***************************************************************************)
(* scripts/fetch_linear.py: find_sprint_cycles                             *)
(*                                                                         *)
(* Instants are whole numbers of ticks counted from SPRINT_START. The API  *)
(* gives them as ISO-8601 UTC strings of one fixed format, so sorting the  *)
(* strings (the code's sort key) orders them as the instants do.           *)
(***************************************************************************)

\* ticks in a day: the resolution of the model's clock
TicksPerDay == 2

\* the most cycles the API returns for a team in the model
MaxCycles == 2

\* SPRINT_START = datetime(2026, 2, 11), the origin of the model's clock
SPRINT_START == 0

\* SPRINT_END = datetime(2026, 2, 24): 13 days after SPRINT_START
SPRINT_LENGTH_DAYS == 13
SPRINT_END == SPRINT_START + SPRINT_LENGTH_DAYS * TicksPerDay

\* "allow +-2 day tolerance"
TOLERANCE_DAYS == 2

\* current = None, next_sprint = None
None == [id |-> 0, startsAt |-> 0, endsAt |-> 0]

\* timedelta.days: the whole days of a difference, rounded towards minus
\* infinity (timedelta(hours=-1).days == -1)
DaysOf(delta) ==
    IF delta >= 0 THEN delta \div TicksPerDay
    ELSE -((-delta + TicksPerDay - 1) \div TicksPerDay)

\* sorted(cycles, key=startsAt), one element at a time: Python's sort is
\* stable, so an element goes after every element whose key is not larger
InsertByStart(sorted, c) ==
    LET k == Cardinality({i \in 1..Len(sorted) : sorted[i].startsAt <= c.startsAt})
    IN SubSeq(sorted, 1, k) \o <<c>> \o SubSeq(sorted, k + 1, Len(sorted))

RECURSIVE SortedCycles(_)
\* sorted_cycles = sorted(cycles, key=lambda x: x["startsAt"])
SortedCycles(cycles) ==
    IF cycles = <<>> THEN <<>>
    ELSE InsertByStart(SortedCycles(SubSeq(cycles, 1, Len(cycles) - 1)),
                       cycles[Len(cycles)])

\* the test of the window walk:
\* abs((start - sprint_start).days) <= 2 and abs((end - sprint_end).days) <= 2
MatchesWindow(c, sprint_start, sprint_end) ==
    /\ Abs(DaysOf(c.startsAt - sprint_start)) <= TOLERANCE_DAYS
    /\ Abs(DaysOf(c.endsAt - sprint_end)) <= TOLERANCE_DAYS

\* a variant of Successor: after the last element comes the first
SuccessorWrapping(sorted, i) == sorted[(i % Len(sorted)) + 1]

\* the element after position i of the sorted list, None at its end
Successor(sorted, i) == IF i + 1 <= Len(sorted) THEN sorted[i + 1] ELSE None

\* the window walk: the index the for loop breaks at, 0 when it runs to the end
WindowMatch(sorted, sprint_start, sprint_end) ==
    LET hits == {i \in 1..Len(sorted) : MatchesWindow(sorted[i], sprint_start, sprint_end)}
    IN IF hits = {} THEN 0 ELSE CHOOSE i \in hits : \A j \in hits : i <= j

\* a variant of LatestActive: the first active cycle instead of the last
EarliestActive(active) == active[1]

\* current = active[-1]
LatestActive(active) == active[Len(active)]

\* sorted_cycles.index(current): the first position holding an equal element
IndexOf(sorted, c) == CHOOSE i \in 1..Len(sorted) :
                          /\ sorted[i] = c
                          /\ \A j \in 1..(i - 1) : sorted[j] # c

\* the fallback: the cycles that contain now, the last of them, its successor
ActiveFallback(sorted, now) ==
    LET active == SelectSeq(sorted, LAMBDA c : c.startsAt <= now /\ now <= c.endsAt)
    IN IF active = <<>> THEN <<None, None>>
       ELSE LET current == LatestActive(active)
            IN <<current, Successor(sorted, IndexOf(sorted, current))>>

\* find_sprint_cycles, after the query: (current, next_sprint)
FindSprintCycles(cycles, sprint_start, sprint_end, now) ==
    LET sorted == SortedCycles(cycles)
        m == WindowMatch(sorted, sprint_start, sprint_end)
    IN IF m # 0 THEN <<sorted[m], Successor(sorted, m)>>
       ELSE ActiveFallback(sorted, now)

\* the starts and ends the model gives a cycle, around the configured window:
\* on it, two days off, and one tick more than two days off on either side
CycleStarts ==
    {SPRINT_START + d : d \in {-(TOLERANCE_DAYS * TicksPerDay) - 1,
                               -(TOLERANCE_DAYS * TicksPerDay),
                               0,
                               TOLERANCE_DAYS * TicksPerDay + 1,
                               (TOLERANCE_DAYS + 1) * TicksPerDay}}
CycleEnds ==
    {SPRINT_END + d : d \in {-(TOLERANCE_DAYS * TicksPerDay) - 1,
                             0,
                             TOLERANCE_DAYS * TicksPerDay + 1}}

\* datetime.now(timezone.utc): before every cycle, inside the window, on the
\* latest end, after every cycle
Nows ==
    {SPRINT_START - (TOLERANCE_DAYS + 1) * TicksPerDay,
     SPRINT_START + TicksPerDay,
     SPRINT_END + TOLERANCE_DAYS * TicksPerDay + 1,
     SPRINT_END + (TOLERANCE_DAYS + 1) * TicksPerDay}

\* result["data"]["cycles"]["nodes"]: cycles with distinct ids, in the order
\* the API returns them; se[i] is the (start, end) of the i-th
CycleList(se) ==
    [i \in DOMAIN se |-> [id |-> i, startsAt |-> se[i][1], endsAt |-> se[i][2]]]

\* the orders of n elements
Orders(n) == {p \in [1..n -> 1..n] : \A i, j \in 1..n : p[i] = p[j] => i = j}

\* up to MaxCycles cycles, and an instant
CycInit ==
    /\ \E n \in 0..MaxCycles : \E se \in [1..n -> CycleStarts \X CycleEnds] :
         \E now \in Nows : cyc = [cycles |-> CycleList(se), now |-> now]
    /\ cycRes = <<>>
    /\ cycRes2 = <<>>

\* find_sprint_cycles on the cycles as returned
ResolveCycles ==
    /\ cycRes = <<>>
    /\ cycRes' = FindSprintCycles(cyc.cycles, SPRINT_START, SPRINT_END, cyc.now)
    /\ UNCHANGED <<cyc, cycRes2, runVars, burnVars, moreVars>>

\* find_sprint_cycles on the same cycles returned in another order
ResolveReordered(p) ==
    /\ cycRes # <<>>
    /\ cycRes2 = <<>>
    /\ cycRes2' = FindSprintCycles([i \in 1..Len(cyc.cycles) |-> cyc.cycles[p[i]]],
                                   SPRINT_START, SPRINT_END, cyc.now)
    /\ UNCHANGED <<cyc, cycRes, runVars, burnVars, moreVars>>

(***************************************************************************)
(* scripts/fetch_linear.py: calculate_burndown                             *)
(*                                                                         *)
(* Scope values are whole story points. "ideal" is kept in tenths of a     *)
(* point, which is what round(ideal, 1) leaves of it.                      *)
(***************************************************************************)

\* the longest scope history in the model
MaxHist == 3

\* the largest scope value in the model
MaxScope == 2

\* round(x, 1) for x = num / den >= 0, in tenths: the nearest tenth, a tie
\* going to the even one
RoundTenths(num, den) ==
    LET n == 10 * num
        q == n \div den
        r == n % den
    IN IF 2 * r < den THEN q
       ELSE IF 2 * r > den THEN q + 1
       ELSE IF q % 2 = 0 THEN q ELSE q + 1

\* a variant of SprintDays: a started day counts as a whole one
SprintDaysRoundedUp(cycle) ==
    Max(DaysOf(cycle.endsAt - cycle.startsAt + TicksPerDay - 1), 1)

\* sprint_days = max((sprint_end - sprint_start).days, 1)
SprintDays(cycle) == Max(DaysOf(cycle.endsAt - cycle.startsAt), 1)

\* a variant of Remaining: the difference without the floor at 0
RemainingUnclamped(scope, done) == scope - done

\* "remaining": max(0, scope - done)
Remaining(scope, done) == Max(0, scope - done)

\* "ideal": round(max(0.0, initial_scope - (initial_scope / sprint_days) * i), 1),
\* in tenths; i counts from 0
Ideal(initial_scope, sprint_days, i) ==
    IF initial_scope * (sprint_days - i) <= 0 THEN 0
    ELSE RoundTenths(initial_scope * (sprint_days - i), sprint_days)

\* "day": (sprint_start + timedelta(days=i)).strftime("%b %d"): the calendar
\* day, counted from the day of SPRINT_START; the time of day is dropped
DayLabel(cycle, i) == DaysOf(cycle.startsAt + i * TicksPerDay)

\* calculate_burndown: [] without scope history; else one point per pair of
\* zip(scope_hist, done_hist)
CalculateBurndown(cycle) ==
    LET scope_hist == cycle.scopeHistory
        done_hist == cycle.completedScopeHistory
    IN IF scope_hist = <<>> THEN <<>>
       ELSE [k \in 1..Min(Len(scope_hist), Len(done_hist)) |->
               [day |-> DayLabel(cycle, k - 1),
                remaining |-> Remaining(scope_hist[k], done_hist[k]),
                ideal |-> Ideal(scope_hist[1], SprintDays(cycle), k - 1)]]

\* the histories of a cycle: one point per elapsed day in both
Histories(n) == [1..n -> 0..MaxScope]

\* the lengths of the cycles the model hands to calculate_burndown: less than
\* a day, two days, a tick more than three days
CycleLengths == {TicksPerDay - 1, 2 * TicksPerDay, 3 * TicksPerDay + 1}

\* a cycle that starts at SPRINT_START, with its two histories
BurndownCycle(len, sc, dn) ==
    [startsAt |-> SPRINT_START, endsAt |-> SPRINT_START + len,
     scopeHistory |-> sc, completedScopeHistory |-> dn]

BurnInit ==
    /\ \E n \in 0..MaxHist : \E sc \in Histories(n), dn \in Histories(n) :
         \E len \in CycleLengths : burnIn = BurndownCycle(len, sc, dn)
    /\ burnOut = [returned |-> FALSE, series |-> <<>>]

\* calculate_burndown(cycle)
Burndown ==
    /\ ~burnOut.returned
    /\ burnOut' = [returned |-> TRUE, series |-> CalculateBurndown(burnIn)]
    /\ UNCHANGED <<burnIn, runVars, cycVars, moreVars>>

(***************************************************************************)
(* scripts/fetch_sheets.py: categorize_readiness, parse_initiatives        *)
(*                                                                         *)
(* A str is the sequence of its characters. A label of READINESS_STAGES is *)
(* kept whole, as a sequence of one element, so that a stage is either     *)
(* <<label>> or the characters of the cell.                                *)
(***************************************************************************)

\* the most pieces a cell is put together from in the model
MaxPieces == 2

UPPERCASE == <<"A", "B", "C", "D", "E", "F", "G", "H", "I", "J", "K", "L", "M",
               "N", "O", "P", "Q", "R", "S", "T", "U", "V", "W", "X", "Y", "Z">>
LOWERCASE == <<"a", "b", "c", "d", "e", "f", "g", "h", "i", "j", "k", "l", "m",
               "n", "o", "p", "q", "r", "s", "t", "u", "v", "w", "x", "y", "z">>

\* the position of c in letters, 0 when it is not one of them
LetterIndex(letters, c) ==
    IF \E i \in 1..Len(letters) : letters[i] = c
      THEN CHOOSE i \in 1..Len(letters) : letters[i] = c
      ELSE 0

\* str.lower()
Lower(s) ==
    [i \in 1..Len(s) |-> IF LetterIndex(UPPERCASE, s[i]) # 0
                           THEN LOWERCASE[LetterIndex(UPPERCASE, s[i])]
                           ELSE s[i]]

\* a variant of Upper: the text as it is
UpperKeepsCase(s) == s

\* str.upper()
Upper(s) ==
    [i \in 1..Len(s) |-> IF LetterIndex(LOWERCASE, s[i]) # 0
                           THEN UPPERCASE[LetterIndex(LOWERCASE, s[i])]
                           ELSE s[i]]

\* a variant of Strip: the text as it is
StripNothing(s) == s

\* str.strip(): without the whitespace at either end
Strip(s) ==
    LET inked == {i \in 1..Len(s) : s[i] # " "}
    IN IF inked = {} THEN <<>>
       ELSE SubSeq(s, CHOOSE i \in inked : \A j \in inked : i <= j,
                      CHOOSE i \in inked : \A j \in inked : i >= j)

\* "sub in s"
Contains(s, sub) ==
    \E i \in 0..(Len(s) - Len(sub)) : SubSeq(s, i + 1, i + Len(sub)) = sub

\* READINESS_STAGES, in dict (insertion) order
READINESS_STAGES == <<
    [key |-> <<"T", "O", "D", "O">>,
     label |-> "Ready for Engineering (Not Yet Picked Up)"],
    [key |-> <<"W", "a", "i", "t", "i", "n", "g", " ", "M", "o", "r", "e", " ",
               "I", "n", "f", "o">>,
     label |-> "Waiting More Info (Additional Work Needed)"],
    [key |-> <<"B", "u", "s", "i", "n", "e", "s", "s", " ", "I", "n", "t", "e", "n", "t">>,
     label |-> "Business Intent Not Defined"],
    [key |-> <<"P", "R", "D">>, label |-> "PRD In Discussion"],
    [key |-> <<"D", "e", "s", "i", "g", "n">>, label |-> "Design Pending"],
    [key |-> <<"V", "e", "n", "d", "o", "r">>, label |-> "Vendor Selection In Progress"],
    [key |-> <<"L", "e", "g", "a", "l">>, label |-> "Legal / Compliance Review"],
    [key |-> <<"I", "n", " ", "P", "r", "o", "g", "r", "e", "s", "s">>,
     label |-> "In Progress"],
    [key |-> <<"D", "o", "n", "e">>, label |-> "Completed" ] >>

\* None, and a row that has no cell in the column
Absent == <<"None">>

\* a variant of FirstKey: the last key of the table that val contains
LastKey(val) ==
    LET hits == {k \in 1..Len(READINESS_STAGES) :
                    Contains(Lower(val), Lower(READINESS_STAGES[k].key))}
    IN IF hits = {} THEN 0 ELSE CHOOSE k \in hits : \A j \in hits : k >= j

\* "for key, label in READINESS_STAGES.items(): if key.lower() in val.lower()":
\* the index of the key the loop returns at, 0 when it runs to the end
FirstKey(val) ==
    LET hits == {k \in 1..Len(READINESS_STAGES) :
                    Contains(Lower(val), Lower(READINESS_STAGES[k].key))}
    IN IF hits = {} THEN 0 ELSE CHOOSE k \in hits : \A j \in hits : k <= j

\* categorize_readiness(raw_value)
CategorizeReadiness(raw_value) ==
    IF raw_value = Absent \/ raw_value = <<>> THEN <<"Unknown / Not Set">>
    ELSE LET val == Strip(raw_value)
         IN IF FirstKey(val) # 0 THEN <<READINESS_STAGES[FirstKey(val)].label>>
            ELSE val

\* parse_initiatives, get(col_letter): the trimmed cell, "" when the row is
\* too short to have it
Get(row, col) == IF row[col] = Absent THEN <<>> ELSE Strip(row[col])

\* "is_ready_for_eng": "TODO" in eng_readiness_raw.upper() if eng_readiness_raw else False
IsReadyForEng(eng_readiness_raw) ==
    eng_readiness_raw # <<>> /\ Contains(Upper(eng_readiness_raw), <<"T", "O", "D", "O">>)

\* "is_waiting_info": "waiting" in eng_readiness_raw.lower() if eng_readiness_raw else False
IsWaitingInfo(eng_readiness_raw) ==
    eng_readiness_raw # <<>>
        /\ Contains(Lower(eng_readiness_raw), <<"w", "a", "i", "t", "i", "n", "g">>)

\* parse_initiatives, the body of the loop for the row numbered row_num
Initiative(row_num, row) ==
    LET eng_readiness_raw == Get(row, "N")
    IN [row |-> row_num,
        name |-> Get(row, "A"),
        eng_readiness_raw |-> eng_readiness_raw,
        eng_readiness_stage |-> CategorizeReadiness(eng_readiness_raw),
        is_ready_for_eng |-> IsReadyForEng(eng_readiness_raw),
        is_waiting_info |-> IsWaitingInfo(eng_readiness_raw)]

\* parse_initiatives with a loop over rows instead of rows[1:]: the header is
\* parsed as a row of data
ParseInitiativesWithHeader(rows) ==
    IF rows = <<>> THEN <<>>
    ELSE LET named == SelectSeq([i \in 1..Len(rows) |-> i],
                                LAMBDA i : Get(rows[i], "A") # <<>>)
         IN [k \in 1..Len(named) |-> Initiative(named[k], rows[named[k]])]

\* parse_initiatives(rows): [] without rows; the first row is the header; a
\* row without a name is skipped; rows are numbered from 2
ParseInitiatives(rows) ==
    IF rows = <<>> THEN <<>>
    ELSE LET named == SelectSeq([i \in 1..(Len(rows) - 1) |-> i + 1],
                                LAMBDA i : Get(rows[i], "A") # <<>>)
         IN [k \in 1..Len(named) |-> Initiative(named[k], rows[named[k]])]

\* what the cells of column N are put together from: the keywords in several
\* letter cases, a keyword inside a longer word, other words, whitespace
Pieces ==
    {<<"T", "O", "D", "O">>, <<"t", "o", "d", "o">>, <<"T", "o", "d", "o">>,
     <<"P", "R", "D">>, <<"p", "r", "d">>,
     <<"D", "e", "s", "i", "g", "n">>,
     <<"A", "b", "a", "n", "d", "o", "n", "e", "d">>,
     <<"W", "a", "i", "t", "i", "n", "g", " ", "M", "o", "r", "e", " ", "I", "n", "f", "o">>,
     <<" ", "-", " ", "n", "e", "e", "d", "s", " ", "s", "p", "e", "c">>,
     <<"B", "l", "o", "c", "k", "e", "d">>,
     <<" ">>}

RECURSIVE Texts(_)
\* the texts made of n pieces
Texts(n) == IF n = 0 THEN {<<>>} ELSE {p \o t : p \in Pieces, t \in Texts(n - 1)}

\* the name cells of a row: none, only whitespace, a name
NameCells == {<<>>, <<" ">>, <<"A", "l", "p", "h", "a">>}

HeaderRow == [A |-> <<"I", "n", "i", "t", "i", "a", "t", "i", "v", "e">>,
              N |-> <<"R", "e", "a", "d", "i", "n", "e", "s", "s">>]

\* the values of the range: nothing; the header alone; the header and a row;
\* the header, a row without cells, and a row
SheetValues(shape, name, cell) ==
    CASE shape = "empty" -> <<>>
      [] shape = "header" -> <<HeaderRow>>
      [] shape = "row" -> <<HeaderRow, [A |-> name, N |-> cell]>>
      [] OTHER -> <<HeaderRow, [A |-> Absent, N |-> Absent], [A |-> name, N |-> cell]>>

NotReturned == [categorized |-> FALSE, stage |-> <<>>, parsed |-> FALSE, initiatives |-> <<>>]

\* a cell, and the sheets that hold it: in a row with each of the name cells,
\* or not at all (no rows, the header alone)
ReadyInit ==
    /\ \E n \in 0..MaxPieces : \E text \in Texts(n) \cup {Absent} :
         \/ \E shape \in {"empty", "header"} :
               rdIn = [raw |-> text, rows |-> SheetValues(shape, <<>>, text)]
         \/ \E name \in NameCells, shape \in {"row", "blank_row"} :
               rdIn = [raw |-> text, rows |-> SheetValues(shape, name, text)]
    /\ rdOut = NotReturned

\* categorize_readiness(raw)
Categorize ==
    /\ ~rdOut.categorized
    /\ rdOut' = [rdOut EXCEPT !.categorized = TRUE, !.stage = CategorizeReadiness(rdIn.raw)]
    /\ UNCHANGED <<rdIn, runVars, cycVars, burnVars, statsVars, paretoVars, renderVars>>

\* parse_initiatives(rows)
Parse ==
    /\ ~rdOut.parsed
    /\ rdOut' = [rdOut EXCEPT !.parsed = TRUE, !.initiatives = ParseInitiatives(rdIn.rows)]
    /\ UNCHANGED <<rdIn, runVars, cycVars, burnVars, statsVars, paretoVars, renderVars>>

ReadyParked ==
    /\ rdIn = <<>>
    /\ rdOut = NotReturned


(***************************************************************************)
(* scripts/generate_report.py: is_stale, is_blocked, aggregate_pod_stats   *)
(*                                                                         *)
(* Instants are ticks, as in find_sprint_cycles. Percentages are kept in   *)
(* tenths of a percent, which is what round(x, 1) leaves of them.          *)
(***************************************************************************)

\* the most issues of a cycle in the model
MaxIssues == 2

\* the largest estimate of an issue in the model
MaxEstimate == 2

\* is_stale(issue, days=3)
STALE_DAYS == 3

COMPLETED_TYPES == {"completed", "done"}
INPROGRESS_TYPES == {"started"}
BLOCKED_LABEL == <<"b", "l", "o", "c", "k", "e", "d">>

\* an issue without "estimate" (None), without "assignee" (None), without "updatedAt"
NoEstimate == -1
NoAssignee == ""
NoUpdate == -1

\* "(datetime.now(timezone.utc) - dt).days > days"
StaleAge(now, updated) == DaysOf(now - updated) > STALE_DAYS

\* is_stale(issue): False unless the state type is in INPROGRESS_TYPES, False
\* without updatedAt, else the age test
IsStale(issue, now) ==
    /\ issue.type \in INPROGRESS_TYPES
    /\ issue.updatedAt # NoUpdate
    /\ StaleAge(now, issue.updatedAt)

\* is_blocked(issue): BLOCKED_LABEL in [l["name"].lower() for l in labels]
IsBlocked(issue) == \E l \in issue.labels : Lower(l) = BLOCKED_LABEL

\* a variant of EstimateOf: an issue without estimate counts one point
EstimateOrOne(issue) == IF issue.estimate = NoEstimate THEN 1 ELSE issue.estimate

\* i.get("estimate") or 0
EstimateOf(issue) == IF issue.estimate = NoEstimate THEN 0 ELSE issue.estimate

\* (i.get("assignee") or {}).get("name", "Unassigned")
AssigneeOf(issue) == IF issue.assignee = NoAssignee THEN "Unassigned" ELSE issue.assignee

RECURSIVE SumPoints(_)
\* sum(i.get("estimate") or 0 for i in issues)
SumPoints(issues) ==
    IF issues = <<>> THEN 0 ELSE EstimateOf(Head(issues)) + SumPoints(Tail(issues))

\* a variant of IsCompleted: an issue in progress counts as completed too
IsCompletedOrStarted(issue) == issue.type \in COMPLETED_TYPES \cup INPROGRESS_TYPES

\* i["state"]["type"] in COMPLETED_TYPES
IsCompleted(issue) == issue.type \in COMPLETED_TYPES

\* i["state"]["type"] in INPROGRESS_TYPES
IsInProgress(issue) == issue.type \in INPROGRESS_TYPES

\* i["state"]["type"] == "cancelled"
IsCancelled(issue) == issue.type = "cancelled"

\* "round(100 * part / whole, 1) if whole else 0", in tenths
Percent(part, whole) == IF whole = 0 THEN 0 ELSE RoundTenths(100 * part, whole)

\* a variant of Engineers: the issues without assignee are left out
EngineersAssignedOnly(issues) ==
    LET assigned == SelectSeq(issues, LAMBDA i : i.assignee # NoAssignee)
    IN [a \in {assigned[k].assignee : k \in 1..Len(assigned)} |->
           LET mine == SelectSeq(assigned, LAMBDA i : i.assignee = a)
           IN [total |-> Len(mine),
               completed |-> Len(SelectSeq(mine, IsCompleted)),
               in_progress |-> Len(SelectSeq(mine, IsInProgress)),
               points |-> SumPoints(mine),
               done_points |-> SumPoints(SelectSeq(mine, IsCompleted))]]

\* the per-engineer breakdown: one entry per assignee name met in the loop
Engineers(issues) ==
    [a \in {AssigneeOf(issues[k]) : k \in 1..Len(issues)} |->
        LET mine == SelectSeq(issues, LAMBDA i : AssigneeOf(i) = a)
        IN [total |-> Len(mine),
            completed |-> Len(SelectSeq(mine, IsCompleted)),
            in_progress |-> Len(SelectSeq(mine, IsInProgress)),
            points |-> SumPoints(mine),
            done_points |-> SumPoints(SelectSeq(mine, IsCompleted))]]

\* current = pod_data.get("current") or {}; issues = current.get("issues", [])
CurrentIssues(pod_data) ==
    IF pod_data.current.resolved THEN pod_data.current.issues ELSE <<>>

\* aggregate_pod_stats(pod_name, pod_data), at the instant now
AggregatePodStats(pod_data, now) ==
    LET issues == CurrentIssues(pod_data)
        total == Len(issues)
        completed == Len(SelectSeq(issues, IsCompleted))
        total_pts == SumPoints(issues)
        done_pts == SumPoints(SelectSeq(issues, IsCompleted))
    IN [total |-> total,
        completed |-> completed,
        in_progress |-> Len(SelectSeq(issues, IsInProgress)),
        canceled |-> Len(SelectSeq(issues, IsCancelled)),
        total_pts |-> total_pts,
        done_pts |-> done_pts,
        pct_tickets |-> Percent(completed, total),
        pct_points |-> Percent(done_pts, total_pts),
        engineers |-> Engineers(issues),
        blocked |-> SelectSeq(issues, IsBlocked),
        stale |-> SelectSeq(issues, LAMBDA i : IsStale(i, now)),
        issues |-> issues]

\* the state types of an issue
StateTypes == {"backlog", "unstarted", "started", "completed", "cancelled"}

\* datetime.now(timezone.utc) when the report is made
ReportNow == 2 * STALE_DAYS * TicksPerDay

\* the instants an issue in progress was last updated at: now, exactly
\* STALE_DAYS before now, one tick earlier than that, a day and one tick earlier
UpdateTimes ==
    {ReportNow,
     ReportNow - STALE_DAYS * TicksPerDay,
     ReportNow - STALE_DAYS * TicksPerDay - 1,
     ReportNow - (STALE_DAYS + 1) * TicksPerDay - 1}

\* the issues of the model: every state type, estimate and assignee; the
\* update time matters for an issue in progress only (is_stale returns before
\* it reads updatedAt of the others), so only there it varies
Issues ==
    {[type |-> t, estimate |-> e, assignee |-> a, updatedAt |-> ReportNow, labels |-> {}] :
        t \in StateTypes \ INPROGRESS_TYPES,
        e \in {NoEstimate} \cup (0..MaxEstimate), a \in {NoAssignee, "Ann", "Bob"}}
    \cup
    {[type |-> "started", estimate |-> e, assignee |-> a, updatedAt |-> u, labels |-> {}] :
        e \in {NoEstimate, MaxEstimate}, a \in {NoAssignee, "Ann"},
        u \in UpdateTimes \cup {NoUpdate}}
    \cup
    {[type |-> "unstarted", estimate |-> NoEstimate, assignee |-> "Bob",
      updatedAt |-> ReportNow, labels |-> ls] :
        ls \in {{<<"B", "l", "o", "c", "k", "e", "d">>}, {<<"b", "u", "g">>}}}

\* the issues of a scenario: five issues with estimates 3, 5, 2, 1, 4, the
\* first two completed, then one started, one in the backlog, one cancelled
ScenarioIssues ==
    LET issue(t, e) == [type |-> t, estimate |-> e, assignee |-> "Ann",
                        updatedAt |-> ReportNow, labels |-> {}]
    IN <<issue("completed", 3), issue("completed", 5), issue("started", 2),
         issue("backlog", 1), issue("cancelled", 4)>>

\* pod_data of one pod: no current cycle, or a current cycle with its issues
PodCurrent(resolved, issues) == [current |-> [resolved |-> resolved, issues |-> issues]]

StatsNotReturned == [returned |-> FALSE, stats |-> <<>>]

StatsInit ==
    /\ \/ stIn = PodCurrent(FALSE, <<>>)
       \/ stIn = PodCurrent(TRUE, ScenarioIssues)
       \/ \E n \in 0..MaxIssues : \E issues \in [1..n -> Issues] :
             stIn = PodCurrent(TRUE, issues)
    /\ stOut = StatsNotReturned

\* aggregate_pod_stats(pod_name, pod_data)
Aggregate ==
    /\ ~stOut.returned
    /\ stOut' = [returned |-> TRUE, stats |-> AggregatePodStats(stIn, ReportNow)]
    /\ UNCHANGED <<stIn, runVars, cycVars, burnVars, readyVars, paretoVars, renderVars>>

StatsParked ==
    /\ stIn = <<>>
    /\ stOut = StatsNotReturned

(***************************************************************************)
(* scripts/generate_report.py: aggregate_next_sprint and the Pareto data   *)
(* of generate_html                                                        *)
(***************************************************************************)

\* pareto_issues[:25]
PARETO_TOP == 25

\* a sort that is not stable: among equal keys the later element comes first
PlaceByPointsTiesReversed(keys, i) ==
    1 + Cardinality({j \in 1..Len(keys) : keys[j] > keys[i]})
      + Cardinality({j \in (i + 1)..Len(keys) : keys[j] = keys[i]})

\* sorted(..., reverse=True) on the keys of the elements: the place of the
\* element at position i. The sort is stable also when reversed, so the
\* element comes after every element with a larger key and after the earlier
\* elements with the same key.
PlaceByPoints(keys, i) ==
    1 + Cardinality({j \in 1..Len(keys) : keys[j] > keys[i]})
      + Cardinality({j \in 1..(i - 1) : keys[j] = keys[i]})

\* sorted(items, key=lambda x: keys of x, reverse=True)
SortedByPoints(items, keys) ==
    LET place == [i \in 1..Len(items) |-> PlaceByPoints(keys, i)]
    IN [k \in 1..Len(items) |-> items[CHOOSE i \in 1..Len(items) : place[i] = k]]

\* the per-engineer breakdown of aggregate_next_sprint
NextEngineers(issues) ==
    [a \in {AssigneeOf(issues[k]) : k \in 1..Len(issues)} |->
        LET mine == SelectSeq(issues, LAMBDA i : AssigneeOf(i) = a)
        IN [total |-> Len(mine), points |-> SumPoints(mine)]]

\* aggregate_next_sprint(pod_name, pod_data) for next_data["issues"] = issues
AggregateNextSprint(pod_name, issues) ==
    [pod |-> pod_name,
     total |-> Len(issues),
     total_pts |-> SumPoints(issues),
     engineers |-> NextEngineers(issues),
     issues |-> SortedByPoints(issues, [k \in 1..Len(issues) |-> EstimateOf(issues[k])])]

\* generate_html: next_stats, one entry per pod whose next cycle has issues,
\* in the order of the pods of the snapshot
NextStats(pods_next) ==
    LET with == SelectSeq([p \in 1..Len(pods_next) |-> p], LAMBDA p : pods_next[p] # <<>>)
    IN [k \in 1..Len(with) |-> AggregateNextSprint(with[k], pods_next[with[k]])]

RECURSIVE ParetoIssues(_)
\* generate_html: pareto_issues before the sort, the issues of next_stats pod
\* after pod
ParetoIssues(next_stats) ==
    IF next_stats = <<>> THEN <<>>
    ELSE LET ns == Head(next_stats)
         IN [k \in 1..Len(ns.issues) |->
                [label |-> ns.issues[k].identifier,
                 pts |-> EstimateOf(ns.issues[k]),
                 pod |-> ns.pod]]
            \o ParetoIssues(Tail(next_stats))

\* pareto_issues.sort(key=pts, reverse=True); pareto_top = pareto_issues[:25]
ParetoTop(next_stats) ==
    LET pareto_issues == ParetoIssues(next_stats)
        sorted == SortedByPoints(pareto_issues,
                                 [k \in 1..Len(pareto_issues) |-> pareto_issues[k].pts])
    IN SubSeq(sorted, 1, Min(Len(sorted), PARETO_TOP))

RECURSIVE SumPts(_)
\* sum(p["pts"] for p in pareto_top)
SumPts(items) == IF items = <<>> THEN 0 ELSE Head(items).pts + SumPts(Tail(items))

\* total_pareto_pts = sum(p["pts"] for p in pareto_top) or 1
TotalParetoPts(pareto_top) == IF SumPts(pareto_top) = 0 THEN 1 ELSE SumPts(pareto_top)

\* a variant of Cumulative: the points of the k-th entry alone
CumulativeNotAdded(pareto_top, k) == pareto_top[k].pts

\* "cumulative += p["pts"]", after the k-th entry
Cumulative(pareto_top, k) == SumPts(SubSeq(pareto_top, 1, k))

\* pareto_cumulative, in tenths of a percent:
\* round(100 * cumulative / total_pareto_pts, 1) for each entry
ParetoCumulative(pareto_top) ==
    [k \in 1..Len(pareto_top) |->
        RoundTenths(100 * Cumulative(pareto_top, k), TotalParetoPts(pareto_top))]

\* count issues of one estimate after another, for one assignee
Run(estimate, count) ==
    [k \in 1..count |-> [estimate |-> estimate, assignee |-> NoAssignee]]

\* the lengths of the first run: none, one, one less than PARETO_TOP, PARETO_TOP
RunLengths == {0, 1, PARETO_TOP - 1, PARETO_TOP}

\* the issues of a next cycle, numbered in fetch order; first is the number
\* of the first
NextIssues(first, issues) ==
    [k \in 1..Len(issues) |->
        [identifier |-> first + k - 1,
         estimate |-> issues[k].estimate,
         assignee |-> issues[k].assignee]]

ParetoNotReturned == [returned |-> FALSE, top |-> <<>>, cumulative |-> <<>>]

\* the next cycles of two pods: in the first a run and up to two issues after
\* it, in the second at most one issue
ParetoInit ==
    /\ \E e1, e2, e3 \in {NoEstimate} \cup (0..MaxEstimate) :
         \E c1 \in RunLengths, c2 \in {0, 1, 2}, c3 \in {0, 1} :
            paIn = <<NextIssues(1, Run(e1, c1) \o Run(e2, c2)),
                     NextIssues(c1 + c2 + 1, Run(e3, c3))>>
    /\ paOut = ParetoNotReturned

\* generate_html, from next_stats to pareto_cumulative
Pareto ==
    /\ ~paOut.returned
    /\ LET pareto_top == ParetoTop(NextStats(paIn))
       IN paOut' = [returned |-> TRUE, top |-> pareto_top,
                    cumulative |-> ParetoCumulative(pareto_top)]
    /\ UNCHANGED <<paIn, runVars, cycVars, burnVars, readyVars, statsVars, renderVars>>

ParetoParked ==
    /\ paIn = <<>>
    /\ paOut = ParetoNotReturned

(***************************************************************************)
(* scripts/generate_report.py: load_json, generate_html, main              *)
(*                                                                         *)
(* The report is kept as the parts the branches of generate_html choose    *)
(* between: the stats Section 1 is rendered from, what stands in the       *)
(* planning part of Section 2, what stands in its initiatives part.        *)
(***************************************************************************)

\* a snapshot file: not there; there without content (0 bytes); a JSON document
MissingFile == [state |-> "missing", data |-> <<>>]
EmptyFile == [state |-> "empty", data |-> <<>>]
JsonFile(d) == [state |-> "json", data |-> d]

\* load_json: json.load(f) raises json.JSONDecodeError on a file without content
LoadRaises(file) == file.state = "empty"

\* load_json, then linear.get("pods", {}): {} for a missing file has no pods
PodsRaw(linear_file) ==
    IF linear_file.state = "missing" THEN <<>> ELSE linear_file.data.pods

\* a variant of SheetsAccessError: the key's default taken as False
SheetsAccessErrorDefaultFalse(sheets_file) ==
    IF sheets_file.state = "missing" THEN FALSE ELSE sheets_file.data.access_error

\* load_json, then sheets_error = sheets.get("access_error", True)
SheetsAccessError(sheets_file) ==
    IF sheets_file.state = "missing" THEN TRUE ELSE sheets_file.data.access_error

\* load_json, then by_stage = sheets.get("by_stage", {}), counted: the
\* initiatives it holds
ByStage(sheets_file) ==
    IF sheets_file.state = "missing" THEN 0 ELSE sheets_file.data.by_stage

\* current_stats: aggregate_pod_stats of every pod with pod_data.get("current")
CurrentStats(pods_raw, now) ==
    LET with == SelectSeq([p \in 1..Len(pods_raw) |-> p],
                          LAMBDA p : pods_raw[p].current.resolved)
    IN [k \in 1..Len(with) |->
           [pod |-> POD_TEAMS[with[k]], stats |-> AggregatePodStats(pods_raw[with[k]], now)]]

\* the issues of pod_data["next"], none when there is no next cycle
NextIssuesOf(pod_data) == IF pod_data.next.resolved THEN pod_data.next.issues ELSE <<>>

RECURSIVE SumField(_, _)
\* sum(s[field] for s in current_stats)
SumField(current_stats, field) ==
    IF current_stats = <<>> THEN 0
    ELSE Head(current_stats).stats[field] + SumField(Tail(current_stats), field)

\* Section 1: the overall totals and the per-pod stats it is rendered from
Section1(pods_raw, now) ==
    LET current_stats == CurrentStats(pods_raw, now)
        overall_total == SumField(current_stats, "total")
        overall_done == SumField(current_stats, "completed")
        overall_pts == SumField(current_stats, "total_pts")
        overall_done_pts == SumField(current_stats, "done_pts")
    IN [overall_total |-> overall_total,
        overall_done |-> overall_done,
        overall_pct_t |-> Percent(overall_done, overall_total),
        overall_pct_p |-> Percent(overall_done_pts, overall_pts),
        pods |-> current_stats]

\* a variant of NextSection: the cards and charts whatever next_stats holds
NextSectionAlwaysPlanning(next_stats) == "planning"

\* "if not next_stats: <placeholder> else: <cards and charts>"
NextSection(next_stats) == IF next_stats = <<>> THEN "placeholder" ELSE "planning"

\* "if sheets_error: <notice> else: if not by_stage: <no data> else: <tables>"
InitiativesSection(sheets_error, by_stage) ==
    IF sheets_error THEN "notice"
    ELSE IF by_stage = 0 THEN "no_data" ELSE "tables"

\* generate_html(linear, sheets), for the two snapshots as loaded
GenerateHtml(linear_file, sheets_file, now) ==
    LET pods_raw == PodsRaw(linear_file)
        next_stats == NextStats([p \in 1..Len(pods_raw) |-> NextIssuesOf(pods_raw[p])])
    IN [section1 |-> Section1(pods_raw, now),
        next_section |-> NextSection(next_stats),
        pareto_cumulative |-> ParetoCumulative(ParetoTop(next_stats)),
        initiatives_section |->
            InitiativesSection(SheetsAccessError(sheets_file), ByStage(sheets_file))]

\* a cycle in a snapshot: None, or its issues
NoCycle == [resolved |-> FALSE, issues |-> <<>>]
Cycle(issues) == [resolved |-> TRUE, issues |-> issues]

\* the current and the next cycles of a pod in the model: none; one without
\* issues; one with an issue
CurrentCycles ==
    {NoCycle, Cycle(<<>>),
     Cycle(<<[type |-> "completed", estimate |-> MaxEstimate, assignee |-> "Ann",
              updatedAt |-> ReportNow, labels |-> {}]>>)}
NextCycles ==
    {NoCycle, Cycle(<<>>),
     Cycle(<<[identifier |-> 1, estimate |-> NoEstimate, assignee |-> NoAssignee]>>)}

\* linear_data.json as fetch_linear.py writes it: one entry per pod
LinearSnapshot(pods_raw) == JsonFile([pods |-> pods_raw])

\* sheets_data.json as fetch_sheets.py writes it: access_error set and no
\* initiatives, or access_error not set and the initiatives grouped by stage
SheetSnapshots ==
    {JsonFile([access_error |-> TRUE, by_stage |-> 0]),
     JsonFile([access_error |-> FALSE, by_stage |-> 0]),
     JsonFile([access_error |-> FALSE, by_stage |-> 1])}

NoHtml == [section1 |-> <<>>, next_section |-> "", pareto_cumulative |-> <<>>,
           initiatives_section |-> ""]

NotRendered == [done |-> FALSE, rc |-> -1, html |-> NoHtml, written |-> FALSE]

\* the two snapshot files as main finds them, and whether index.html can be written
RenderInit ==
    /\ \E linear \in {MissingFile, EmptyFile}
                     \cup {LinearSnapshot(pods_raw) :
                              pods_raw \in [1..NumPods -> [current : CurrentCycles,
                                                           next : NextCycles]]} :
         \E sheets \in {MissingFile, EmptyFile} \cup SheetSnapshots :
            \E writable \in BOOLEAN :
               rnIn = [linear |-> linear, sheets |-> sheets, writable |-> writable]
    /\ rnOut = NotRendered

\* the whole of main: load_json twice, generate_html, write index.html. An
\* exception (json.JSONDecodeError in load_json, OSError in the write) leaves
\* main and ends the process with status 1.
Render ==
    /\ ~rnOut.done
    /\ IF LoadRaises(rnIn.linear) \/ LoadRaises(rnIn.sheets)
         THEN rnOut' = [done |-> TRUE, rc |-> 1, html |-> NoHtml, written |-> FALSE]
         ELSE LET html == GenerateHtml(rnIn.linear, rnIn.sheets, ReportNow)
              IN rnOut' = [done |-> TRUE, rc |-> IF rnIn.writable THEN 0 ELSE 1,
                           html |-> html, written |-> rnIn.writable]
    /\ UNCHANGED <<rnIn, runVars, cycVars, burnVars, readyVars, statsVars, paretoVars>>

RenderParked ==
    /\ rnIn = <<>>
    /\ rnOut = NotRendered

MoreParked == ReadyParked /\ StatsParked /\ ParetoParked /\ RenderParked

(***************************************************************************)
(* The pipeline                                                            *)
(***************************************************************************)

NoProcess ==
    /\ env = Env(FALSE, UnreadGoogle)
    /\ mode = "none"
    /\ opc = "idle"
    /\ started = <<>>
    /\ rcs = <<>>
    /\ exitCode = -1
    /\ child = "none"
    /\ cpc = "exited"
    /\ childRc = -1
    /\ net = NoNet
    /\ ti = 0
    /\ pods = <<>>
    /\ errPod = 0
    /\ sh = NoSheets
    /\ wrote = FALSE

RunInit ==
    /\ NoProcess
    /\ linearFile = Missing
    /\ sheetsFile = Missing
    /\ htmlFile = Missing

\* the invocation is over and its processes are gone; the files stay
BackToShell ==
    /\ Finished
    /\ env' = Env(FALSE, UnreadGoogle)
    /\ mode' = "none"
    /\ opc' = "idle"
    /\ started' = <<>>
    /\ rcs' = <<>>
    /\ exitCode' = -1
    /\ child' = "none"
    /\ cpc' = "exited"
    /\ childRc' = -1
    /\ net' = NoNet
    /\ ti' = 0
    /\ pods' = <<>>
    /\ errPod' = 0
    /\ sh' = NoSheets
    /\ wrote' = FALSE
    /\ UNCHANGED <<linearFile, sheetsFile, htmlFile, cycVars, burnVars, moreVars>>

CycParked ==
    /\ cyc = <<>>
    /\ cycRes = <<>>
    /\ cycRes2 = <<>>

BurnParked ==
    /\ burnIn = <<>>
    /\ burnOut = [returned |-> FALSE, series |-> <<>>]

Init == RunInit /\ CycParked /\ BurnParked /\ MoreParked

Next ==
    \/ \E e \in Envs : RunAllMain(e)
    \/ \E e \in Envs, name \in {STAGES[i] : i \in 1..Len(STAGES)} : RunStandalone(e, name)
    \/ RunScriptReturn
    \/ FetchLinearMain
    \/ \E q1 \in QueryOutcomes, pair \in CyclePairs, q2 \in QueryOutcomes,
          q3 \in QueryOutcomes : FetchLinearPod(q1, pair, q2, q3)
    \/ FetchLinearSave
    \/ \E g \in GoogleEnvs, tok \in TokenOutcomes, tokreq \in {0, 1} :
            FetchSheetsMain(g, tok, tokreq)
    \/ \E r \in RangeOutcomes, fetched \in SheetRows, pr \in PillarOutcomes :
            FetchSheetsRange(r, fetched, pr)
    \/ \E write_ok \in BOOLEAN : GenerateReportMain(write_ok)
    \/ BackToShell

Spec == Init /\ [][Next]_vars

(***************************************************************************)
(* Properties of the pipeline                                              *)
(***************************************************************************)

\* C1: when a query of some pod raises in fetch_linear.main, only that pod's
\* fetch is given up: the loop still visits every pod after it and the tracker
\* snapshot is written, with that pod holding no current and no next cycle.
C1_PodErrorIsolated ==
    (child = "fetch_linear.py" /\ cpc = "exited" /\ errPod # 0) =>
        /\ ti > NumPods
        /\ wrote
        /\ linearFile.exists
        /\ Len(linearFile.pods) = NumPods
        /\ linearFile.pods[errPod] = PodData(FALSE, FALSE)

\* C2: when the initiatives range call of fetch_sheets.main fails (HTTP error,
\* timeout or connection error, no usable credential), the script does not
\* abort: it writes the snapshot with access_error = true and no initiatives.
C2_RangeFailureWritesStub ==
    (child = "fetch_sheets.py" /\ cpc = "exited"
        /\ sh.range \in {"http_error", "url_error", "no_credentials"}) =>
        /\ childRc = 0
        /\ wrote
        /\ sheetsFile.exists
        /\ sheetsFile.access_error
        /\ sheetsFile.initiatives = 0

\* C3: once the credential check has passed, run_all.py exits non-zero exactly
\* when generate_report.py did; the exit codes of the two fetch scripts do not
\* change its exit status.
C3_ExitIffRenderFails ==
    (mode = "run_all" /\ opc = "exited" /\ env.LINEAR_API_KEY) =>
        /\ Len(rcs) = 3
        /\ (exitCode # 0) <=> (rcs[3] # 0)
        /\ exitCode \in {0, 1}

\* C3 witness: both fetch scripts failed, the report was written, the run exits 0
C3_Witness ==
    /\ mode = "run_all" /\ opc = "exited"
    /\ rcs = <<1, 1, 0>>
    /\ exitCode = 0

\* C4: in a run that passes the credential check the scripts start in the
\* order fetch_linear, fetch_sheets, generate_report, each one only after the
\* one before it has exited, each exactly once, and generate_report is started
\* whatever the two fetch scripts returned.
C4_StagesInOrderOnce ==
    (mode = "run_all" /\ env.LINEAR_API_KEY) =>
        /\ Len(started) <= Len(STAGES)
        /\ started = SubSeq(STAGES, 1, Len(started))
        /\ opc = "running" =>
              /\ Len(started) = Len(rcs) + 1
              /\ child = started[Len(started)]
        /\ opc = "exited" =>
              /\ started = STAGES
              /\ Len(rcs) = Len(STAGES)

\* C4 witness: generate_report.py is running after both fetch scripts failed
C4_Witness ==
    /\ mode = "run_all" /\ opc = "running"
    /\ child = "generate_report.py" /\ cpc = "main"
    /\ rcs = <<1, 1>>
    /\ started = STAGES

\* C5: when a fetch script fails in a run, the report that run renders shows
\* that source as absent or empty, never data an earlier run left in the
\* snapshot file.
C5_FailedFetchShownAbsent ==
    (mode = "run_all" /\ opc = "exited" /\ Len(rcs) = 3 /\ rcs[3] = 0) =>
        /\ rcs[1] # 0 => htmlFile.linear_data = "none"
        /\ rcs[2] # 0 => htmlFile.sheets_data = "none"

\* C6: a missing required credential is fatal before any work is done:
\* run_all.py without LINEAR_API_KEY exits non-zero and starts no script;
\* fetch_linear.py without LINEAR_API_KEY exits non-zero with no query sent;
\* fetch_sheets.py without GOOGLE_SHEET_ID exits non-zero with no request
\* sent, and without a usable Google credential it exits non-zero with no
\* range request sent.
C6_MissingCredentialFatal ==
    /\ (mode = "run_all" /\ ~env.LINEAR_API_KEY) =>
          /\ opc = "exited"
          /\ exitCode # 0
          /\ started = <<>>
          /\ child = "none"
    /\ (child = "fetch_linear.py" /\ cpc # "main" /\ ~env.LINEAR_API_KEY) =>
          /\ cpc = "exited"
          /\ childRc # 0
          /\ net = NoNet
    /\ (child = "fetch_sheets.py" /\ cpc # "main" /\ ~env.GOOGLE_SHEET_ID) =>
          /\ cpc = "exited"
          /\ childRc # 0
          /\ net = NoNet
    /\ (child = "fetch_sheets.py" /\ cpc = "exited"
          /\ sh.token # "ok" /\ ~env.GOOGLE_API_KEY) =>
          /\ childRc # 0
          /\ net.range = 0

\* C6 witness: fetch_sheets.py, sheet id set, the token exchange failed and no
\* API key is set: it has exited with status 1
C6_Witness ==
    /\ child = "fetch_sheets.py" /\ cpc = "exited"
    /\ env.GOOGLE_SHEET_ID /\ env.sa_exists /\ ~env.GOOGLE_API_KEY
    /\ sh.token = "failed" /\ net.token = 1
    /\ childRc = 1

(***************************************************************************)
(* find_sprint_cycles as a function                                        *)
(***************************************************************************)

CycNext ==
    \/ ResolveCycles
    \/ \E p \in Orders(Len(cyc.cycles)) : ResolveReordered(p)

InitCycles == CycInit /\ RunInit /\ BurnParked /\ MoreParked

SpecCycles == InitCycles /\ [][CycNext]_vars

\* within 2 days of the window in either direction, fractions of a day counted
C7_WithinTwoDays(c) ==
    /\ Abs(c.startsAt - SPRINT_START) <= TOLERANCE_DAYS * TicksPerDay
    /\ Abs(c.endsAt - SPRINT_END) <= TOLERANCE_DAYS * TicksPerDay

\* C7: the window walk takes as current the first cycle, in ascending start
\* order, whose start and end are both at most 2 days (in either direction,
\* fractions counted) from the target start and end; a cycle outside that
\* tolerance is never taken by the walk, so without such a cycle the result is
\* the fallback's.
C7_CurrentWithinTwoDays ==
    cycRes # <<>> =>
        LET sorted == SortedCycles(cyc.cycles)
            within == {i \in 1..Len(sorted) : C7_WithinTwoDays(sorted[i])}
        IN IF within # {}
             THEN cycRes[1] = sorted[CHOOSE i \in within : \A j \in within : i <= j]
             ELSE cycRes = ActiveFallback(sorted, cyc.now)

\* C8: when the window walk takes no cycle, current is the cycle with the
\* latest start among those whose [start, end] contains now and next is the
\* cycle after it in ascending start order; when no cycle contains now the
\* result is (None, None).
C8_FallbackLatestActive ==
    (cycRes # <<>>
        /\ WindowMatch(SortedCycles(cyc.cycles), SPRINT_START, SPRINT_END) = 0) =>
        LET sorted == SortedCycles(cyc.cycles)
            active == {i \in 1..Len(sorted) :
                          sorted[i].startsAt <= cyc.now /\ cyc.now <= sorted[i].endsAt}
        IN IF active = {}
             THEN cycRes = <<None, None>>
             ELSE \E i \in active :
                    /\ cycRes[1] = sorted[i]
                    /\ \A j \in active : sorted[j].startsAt <= sorted[i].startsAt
                    /\ cycRes[2] = (IF i < Len(sorted) THEN sorted[i + 1] ELSE None)

\* C8 witness: no cycle passes the window test, two cycles with different
\* starts contain now, and the fallback has returned a current cycle
C8_Witness ==
    /\ cycRes # <<>>
    /\ WindowMatch(SortedCycles(cyc.cycles), SPRINT_START, SPRINT_END) = 0
    /\ Len(cyc.cycles) = 2
    /\ \A i \in 1..2 : cyc.cycles[i].startsAt <= cyc.now /\ cyc.now <= cyc.cycles[i].endsAt
    /\ cyc.cycles[1].startsAt > cyc.cycles[2].startsAt
    /\ cycRes[1] = cyc.cycles[1]

\* C9: for every set of cycles, ties in start time included, every two orders
\* of it give the same (current, next) for the same window and the same now.
C9_OrderIndependent ==
    (cycRes # <<>> /\ cycRes2 # <<>>) => cycRes2 = cycRes

(***************************************************************************)
(* calculate_burndown as a function                                        *)
(***************************************************************************)

BurnNext == Burndown

InitBurn == BurnInit /\ RunInit /\ CycParked /\ MoreParked

SpecBurn == InitBurn /\ [][BurnNext]_vars

\* C10: for a cycle with a non-empty scope history the series has
\* ideal[0] = scope[0], ideal never rises from one point to the next, and
\* remaining is never negative.
C10_BurndownShape ==
    (burnOut.returned /\ burnIn.scopeHistory # <<>>) =>
        LET series == burnOut.series
        IN /\ Len(series) = Len(burnIn.scopeHistory)
           /\ series[1].ideal = 10 * burnIn.scopeHistory[1]
           /\ \A k \in 1..(Len(series) - 1) : series[k + 1].ideal <= series[k].ideal
           /\ \A k \in 1..Len(series) : series[k].remaining >= 0

\* C10 witness: a series of three points over a two-day cycle in which more
\* was completed than was in scope at the second point, the ideal line falls
\* and reaches 0
C10_Witness ==
    /\ burnOut.returned
    /\ Len(burnOut.series) = 3
    /\ SprintDays(burnIn) = 2
    /\ burnIn.completedScopeHistory[2] > burnIn.scopeHistory[2]
    /\ burnOut.series[2].remaining = 0
    /\ burnOut.series[1].ideal > burnOut.series[2].ideal
    /\ burnOut.series[2].ideal > burnOut.series[3].ideal
    /\ burnOut.series[3].ideal = 0

(***************************************************************************)
(* categorize_readiness and parse_initiatives as functions                 *)
(***************************************************************************)

ReadyNext ==
    \/ Categorize
    \/ Parse

InitReady == ReadyInit /\ RunInit /\ CycParked /\ BurnParked /\ StatsParked /\ ParetoParked /\ RenderParked

SpecReady == InitReady /\ [][ReadyNext]_vars

\* the same character, or the two cases of one letter
SameLetter(a, b) ==
    a = b \/ \E i \in 1..Len(UPPERCASE) : {a, b} = {UPPERCASE[i], LOWERCASE[i]}

\* the k-th keyword of the table stands somewhere in text, in any letter case
HasKeyword(text, k) ==
    LET key == READINESS_STAGES[k].key
    IN \E i \in 0..(Len(text) - Len(key)) :
          \A j \in 1..Len(key) : SameLetter(text[i + j], key[j])

\* t is text without the whitespace at its two ends
IsTrimmed(text, t) ==
    /\ t = <<>> \/ (t[1] # " " /\ t[Len(t)] # " ")
    /\ \E lead \in 0..(Len(text) - Len(t)) :
          /\ SubSeq(text, lead + 1, lead + Len(t)) = t
          /\ \A i \in (1..lead) \cup ((lead + Len(t) + 1)..Len(text)) : text[i] = " "

\* the initiative parse_initiatives made of the data row of the sheet
DataRowParsed ==
    /\ rdOut.parsed
    /\ Len(rdOut.initiatives) = 1

\* C11: categorize_readiness gives every raw value one stage: 'Unknown / Not
\* Set' for None and for the empty string; the label of a keyword the text
\* contains when it contains one; the text itself, trimmed, when it is not
\* empty and contains no keyword.
C11_CategorizeTotal ==
    rdOut.categorized =>
        LET raw == rdIn.raw
            stage == rdOut.stage
            keys == IF raw = Absent THEN {}
                    ELSE {k \in 1..Len(READINESS_STAGES) : HasKeyword(raw, k)}
        IN IF raw = Absent \/ raw = <<>> THEN stage = <<"Unknown / Not Set">>
           ELSE IF keys # {} THEN \E k \in keys : stage = <<READINESS_STAGES[k].label>>
           ELSE IsTrimmed(raw, stage)

\* C11 witness: a cell with whitespace before a word that is no keyword has
\* been classified as the word
C11_Witness ==
    /\ rdOut.categorized
    /\ rdIn.raw = <<" ", "B", "l", "o", "c", "k", "e", "d">>
    /\ rdOut.stage = <<"B", "l", "o", "c", "k", "e", "d">>

\* C12: the keyword match ignores letter case and the first keyword of the
\* table that the text contains decides: the stage is the label of the
\* earliest table entry whose keyword stands in the text in any letter case.
C12_FirstKeywordWins ==
    (rdOut.categorized /\ rdIn.raw # Absent /\ rdIn.raw # <<>>) =>
        \A k \in 1..Len(READINESS_STAGES) :
            (HasKeyword(rdIn.raw, k) /\ \A j \in 1..(k - 1) : ~HasKeyword(rdIn.raw, j))
                => rdOut.stage = <<READINESS_STAGES[k].label>>

\* C12 witness: 'Designprd' (Design first in the text, PRD in lower case) has
\* been classified as 'PRD In Discussion'
C12_Witness ==
    /\ rdOut.categorized
    /\ rdIn.raw = <<"D", "e", "s", "i", "g", "n", "p", "r", "d">>
    /\ rdOut.stage = <<"PRD In Discussion">>

\* C13: is_ready_for_eng of a parsed initiative is true exactly when the raw
\* readiness text contains 'TODO' in upper case; 'todo' or 'Todo' alone gives
\* false.
C13_ReadyIffUppercaseTodo ==
    DataRowParsed =>
        (rdOut.initiatives[1].is_ready_for_eng
            <=> (rdIn.raw # Absent /\ Contains(rdIn.raw, <<"T", "O", "D", "O">>)))

\* C13, amended: is_ready_for_eng of a parsed initiative is true exactly when
\* the raw readiness text contains 'todo' in any letter case.
C13_ReadyIffTodoAnyCase ==
    DataRowParsed =>
        (rdOut.initiatives[1].is_ready_for_eng
            <=> (rdIn.raw # Absent /\ HasKeyword(rdIn.raw, 1)))

\* C13 witness: a row whose readiness cell is 'Todo' has been parsed with
\* is_ready_for_eng true
C13_Witness ==
    /\ DataRowParsed
    /\ rdIn.raw = <<"T", "o", "d", "o">>
    /\ rdOut.initiatives[1].is_ready_for_eng

(***************************************************************************)
(* aggregate_pod_stats as a function                                       *)
(***************************************************************************)

StatsNext == Aggregate

InitStats == StatsInit /\ RunInit /\ CycParked /\ BurnParked /\ ReadyParked /\ ParetoParked /\ RenderParked

SpecStats == InitStats /\ [][StatsNext]_vars

\* the positions of the issues of the given state type
OfType(issues, t) == {k \in 1..Len(issues) : issues[k].type = t}

RECURSIVE PointsOf(_, _)
\* the estimates of the issues at the given positions, added up, an issue
\* without estimate adding nothing
PointsOf(issues, positions) ==
    IF positions = {} THEN 0
    ELSE LET k == CHOOSE k \in positions : TRUE
         IN (IF issues[k].estimate = NoEstimate THEN 0 ELSE issues[k].estimate)
                + PointsOf(issues, positions \ {k})

\* tenths is part / whole as a percentage, to the nearest tenth of a percent
IsPercentage(tenths, part, whole) ==
    2 * Abs(tenths * whole - 1000 * part) <= whole

\* C14: for a pod with a resolved current cycle and any list of issues,
\* completed + in_progress + canceled <= total and 0 <= pct_tickets <= 100.
C14_CountsWithinTotal ==
    (stOut.returned /\ stIn.current.resolved) =>
        LET s == stOut.stats
        IN /\ s.completed + s.in_progress + s.canceled <= s.total
           /\ 0 <= s.pct_tickets
           /\ s.pct_tickets <= 1000

\* C14 witness: a cycle of one completed and one cancelled issue: the three
\* counts add up to the total and half of the tickets are done
C14_Witness ==
    /\ stOut.returned
    /\ stIn.current.resolved
    /\ stOut.stats.total = 2
    /\ stOut.stats.completed = 1
    /\ stOut.stats.canceled = 1
    /\ stOut.stats.pct_tickets = 500

\* C15: total is the number of issues, completed the number of issues of
\* state type completed, total_pts the sum of the estimates and done_pts the
\* sum over the completed issues (no estimate counting 0), pct_tickets and
\* pct_points are 100*completed/total and 100*done_pts/total_pts to one
\* decimal, each 0 when its denominator is 0; estimates 3, 5, 2, 1, 4 with
\* states completed, completed, started, backlog, cancelled give 5, 2, 8, 15,
\* 40.0 and 53.3.
C15_StatsValues ==
    stOut.returned =>
        LET s == stOut.stats
            issues == IF stIn.current.resolved THEN stIn.current.issues ELSE <<>>
            done == OfType(issues, "completed")
        IN /\ s.total = Len(issues)
           /\ s.completed = Cardinality(done)
           /\ s.total_pts = PointsOf(issues, 1..Len(issues))
           /\ s.done_pts = PointsOf(issues, done)
           /\ IF s.total = 0 THEN s.pct_tickets = 0
              ELSE IsPercentage(s.pct_tickets, s.completed, s.total)
           /\ IF s.total_pts = 0 THEN s.pct_points = 0
              ELSE IsPercentage(s.pct_points, s.done_pts, s.total_pts)
           /\ issues = ScenarioIssues =>
                 /\ s.total = 5 /\ s.completed = 2
                 /\ s.done_pts = 8 /\ s.total_pts = 15
                 /\ s.pct_tickets = 400 /\ s.pct_points = 533

\* C15 witness: the stats of the scenario have been computed
C15_Witness ==
    /\ stOut.returned
    /\ stIn.current.resolved
    /\ stIn.current.issues = ScenarioIssues
    /\ stOut.stats.pct_points = 533

\* C16: an issue is in the stale list exactly when its state type is started
\* and it was last updated more than 3 days before now, parts of a day
\* counted: 3 days and an hour is stale, exactly 3 days is not.
C16_StaleIffOlderThanThreeDays ==
    stOut.returned =>
        \A k \in 1..Len(stOut.stats.issues) :
            LET issue == stOut.stats.issues[k]
            IN (\E j \in 1..Len(stOut.stats.stale) : stOut.stats.stale[j] = issue)
                  <=> /\ issue.type = "started"
                      /\ issue.updatedAt # NoUpdate
                      /\ ReportNow - issue.updatedAt > STALE_DAYS * TicksPerDay

(***************************************************************************)
(* The Pareto data as a function                                           *)
(***************************************************************************)

ParetoNext == Pareto

InitPareto == ParetoInit /\ RunInit /\ CycParked /\ BurnParked /\ ReadyParked /\ StatsParked /\ RenderParked

SpecPareto == InitPareto /\ [][ParetoNext]_vars

\* the series never falls from one rank to the next
C17_NonDecreasing(series) ==
    \A k \in 1..(Len(series) - 1) : series[k] <= series[k + 1]

\* C17: whenever pareto_top is not empty, pareto_cumulative is non-decreasing
\* and its last value is 100, whatever the estimates, missing and all-zero
\* estimates included.
C17_CumulativeEndsAt100 ==
    (paOut.returned /\ paOut.top # <<>>) =>
        /\ C17_NonDecreasing(paOut.cumulative)
        /\ paOut.cumulative[Len(paOut.cumulative)] = 1000

\* C17, amended: pareto_cumulative has one value per entry of pareto_top and
\* is non-decreasing; its last value is 100 when some estimate in pareto_top
\* is positive, and every value is 0 when all of them are missing or zero.
C17_CumulativeEndsAt100IfPoints ==
    (paOut.returned /\ paOut.top # <<>>) =>
        /\ Len(paOut.cumulative) = Len(paOut.top)
        /\ C17_NonDecreasing(paOut.cumulative)
        /\ IF \E k \in 1..Len(paOut.top) : paOut.top[k].pts > 0
             THEN paOut.cumulative[Len(paOut.cumulative)] = 1000
             ELSE \A k \in 1..Len(paOut.cumulative) : paOut.cumulative[k] = 0

\* C17 witness: more issues than PARETO_TOP, of two different positive
\* estimates: the series is cut to PARETO_TOP values, rises and ends at 100
C17_Witness ==
    /\ paOut.returned
    /\ Len(paIn[1]) + Len(paIn[2]) > PARETO_TOP
    /\ Len(paOut.cumulative) = PARETO_TOP
    /\ paOut.top[1].pts > paOut.top[PARETO_TOP].pts
    /\ paOut.top[PARETO_TOP].pts > 0
    /\ paOut.cumulative[1] < paOut.cumulative[PARETO_TOP]
    /\ paOut.cumulative[PARETO_TOP] = 1000

(***************************************************************************)
(* generate_report.main on the snapshot files it finds                     *)
(***************************************************************************)

RenderNext == Render

InitRender ==
    RenderInit /\ RunInit /\ CycParked /\ BurnParked /\ ReadyParked /\ StatsParked
        /\ ParetoParked

SpecRender == InitRender /\ [][RenderNext]_vars

\* generate_html was called and returned
HtmlGenerated == rnOut.done /\ rnOut.html # NoHtml

\* C18: when the sheet snapshot is missing or has access_error = true,
\* generate_html gives the notice and no initiative tables, and Section 1 is
\* what it is for the same tracker snapshot with a sheet that was fetched.
C18_SheetErrorGivesNotice ==
    (rnOut.done /\ ~LoadRaises(rnIn.linear)
        /\ (rnIn.sheets.state = "missing"
              \/ (rnIn.sheets.state = "json" /\ rnIn.sheets.data.access_error))) =>
        /\ HtmlGenerated
        /\ rnOut.html.initiatives_section = "notice"
        /\ \A fetched \in {s \in SheetSnapshots : ~s.data.access_error} :
              rnOut.html.section1 = GenerateHtml(rnIn.linear, fetched, ReportNow).section1

\* C18 witness: no sheet snapshot, a tracker snapshot with a current cycle
\* that has a completed issue: the notice stands under a Section 1 with a pod
C18_Witness ==
    /\ HtmlGenerated
    /\ rnIn.sheets.state = "missing"
    /\ rnOut.html.initiatives_section = "notice"
    /\ rnOut.html.section1.overall_done > 0

\* C19: when no pod has issues in a next cycle (no next cycle, or no tracker
\* snapshot), generate_html returns and the planning part is the placeholder.
C19_NoNextGivesPlaceholder ==
    (rnOut.done /\ ~LoadRaises(rnIn.linear) /\ ~LoadRaises(rnIn.sheets)
        /\ (rnIn.linear.state = "missing"
              \/ \A p \in 1..Len(rnIn.linear.data.pods) :
                    ~rnIn.linear.data.pods[p].next.resolved)) =>
        /\ HtmlGenerated
        /\ rnOut.html.next_section = "placeholder"
        /\ rnOut.html.pareto_cumulative = <<>>

\* C19 witness: a tracker snapshot whose pods have a current cycle and no
\* next cycle has been rendered with the placeholder
C19_Witness ==
    /\ HtmlGenerated
    /\ rnIn.linear.state = "json"
    /\ \A p \in 1..Len(rnIn.linear.data.pods) :
          /\ rnIn.linear.data.pods[p].current.resolved
          /\ ~rnIn.linear.data.pods[p].next.resolved
    /\ rnOut.html.next_section = "placeholder"

\* C20: a snapshot file that is missing and one that is there without
\* content are both 'no data': whenever index.html can be written, main
\* writes the report and exits 0, whichever of the two files is missing or
\* without content.
C20_MissingAndEmptyAlike ==
    (rnOut.done /\ rnIn.writable
        /\ \E file \in {rnIn.linear, rnIn.sheets} : file.state \in {"missing", "empty"}) =>
        /\ rnOut.rc = 0
        /\ rnOut.written

\* C21: a pod for which find_sprint_cycles found no current and no next cycle
\* (the snapshot holds None for both) is rendered in Section 1 with
\* zero-filled stats: total, completed, points and percentages all 0, and
\* generate_html returns.
C21_NoCyclePodZeroFilled ==
    (rnOut.done /\ ~LoadRaises(rnIn.linear) /\ ~LoadRaises(rnIn.sheets)
        /\ rnIn.linear.state = "json") =>
        /\ HtmlGenerated
        /\ \A p \in 1..Len(rnIn.linear.data.pods) :
              (~rnIn.linear.data.pods[p].current.resolved
                  /\ ~rnIn.linear.data.pods[p].next.resolved) =>
                 \E k \in 1..Len(rnOut.html.section1.pods) :
                    LET shown == rnOut.html.section1.pods[k]
                    IN /\ shown.pod = POD_TEAMS[p]
                       /\ shown.stats.total = 0
                       /\ shown.stats.completed = 0
                       /\ shown.stats.total_pts = 0
                       /\ shown.stats.done_pts = 0
                       /\ shown.stats.pct_tickets = 0
                       /\ shown.stats.pct_points = 0

\* the queries the fetch of one pod sends when a pod without current cycle
\* also has its backlog fetched: the cycles, the issues of each resolved
\* cycle, the backlog
C22_QueriesOf(pod) ==
    1 + (IF pod.current THEN 1 ELSE 0) + (IF pod.next THEN 1 ELSE 0)
      + (IF pod.current THEN 0 ELSE 1)

RECURSIVE C22_QueriesOfAll(_)
C22_QueriesOfAll(podlist) ==
    IF podlist = <<>> THEN 0
    ELSE C22_QueriesOf(Head(podlist)) + C22_QueriesOfAll(Tail(podlist))

\* C22: for every pod without a resolved current cycle fetch_linear.main also
\* fetches the pod's backlog (one more query for that pod) and reports it in
\* the pod's backlog list of the snapshot.
C22_BacklogFetched ==
    (child = "fetch_linear.py" /\ cpc = "exited" /\ wrote) =>
        net.linear = C22_QueriesOfAll(linearFile.pods)

\* the cell holds a name: it is there and not all of it is whitespace
C23_HasName(cell) ==
    cell # Absent /\ \E j \in 1..Len(cell) : cell[j] # " "

\* the positions in the sheet of the rows after the header that hold a name
C23_NamedRows == {i \in 2..Len(rdIn.rows) : C23_HasName(rdIn.rows[i].A)}

C24_EntriesOf(p) ==
    {[label |-> paIn[p][k].identifier,
      pts |-> IF paIn[p][k].estimate = NoEstimate THEN 0 ELSE paIn[p][k].estimate,
      pod |-> p] : k \in 1..Len(paIn[p])}

\* entry a is ranked before entry b: more points, or as many and fetched
\* earlier (issues are numbered in fetch order, pod after pod)
C24_Before(a, b) ==
    a.pts > b.pts \/ (a.pts = b.pts /\ a.label < b.label)

\* top is the ranking of the entries: sorted, ties in fetch order, cut to
\* the PARETO_TOP first
C24_IsRankingOf(top, entries) ==
    /\ Len(top) = Min(PARETO_TOP, Cardinality(entries))
    /\ \A k \in 1..Len(top) : top[k] \in entries
    /\ \A k \in 1..(Len(top) - 1) : C24_Before(top[k], top[k + 1])
    /\ \A e \in entries \ {top[k] : k \in 1..Len(top)} :
          \A k \in 1..Len(top) : C24_Before(top[k], e)

RECURSIVE C24_PointsOfFirst(_, _)
\* the points of the first k entries of the ranking
C24_PointsOfFirst(top, k) ==
    IF k = 0 THEN 0 ELSE top[k].pts + C24_PointsOfFirst(top, k - 1)

\* the percentages are those of the ranking's own total, where there is one
C24_CumulativeOfRanking(top, cumulative) ==
    /\ Len(cumulative) = Len(top)
    /\ C24_PointsOfFirst(top, Len(top)) > 0 =>
          \A k \in 1..Len(top) :
             cumulative[k] = RoundTenths(100 * C24_PointsOfFirst(top, k),
                                         C24_PointsOfFirst(top, Len(top)))

\* C24: for each team with a next cycle the Pareto ranking is that team's
\* issues sorted by estimate, descending, a missing estimate counted as 0 and
\* equal estimates in fetch order, cut to the top 25; the cumulative
\* percentage at each rank is taken against the total of the cut ranking.
C24_RankingPerTeam ==
    paOut.returned =>
        \A p \in 1..Len(paIn) :
            paIn[p] # <<>> =>
                /\ C24_IsRankingOf(paOut.top, C24_EntriesOf(p))
                /\ C24_CumulativeOfRanking(paOut.top, paOut.cumulative)

\* C24, amended: there is one Pareto ranking for all teams: the issues of the
\* next cycles of all teams together, sorted by estimate, descending, a
\* missing estimate counted as 0 and equal estimates in the order of the
\* teams and, within a team, in fetch order, cut to the top 25 of all; the
\* cumulative percentage at each rank is taken against the total of the cut
\* ranking where that total is positive.
C24_RankingOfAllTeams ==
    paOut.returned =>
        /\ C24_IsRankingOf(paOut.top, UNION {C24_EntriesOf(p) : p \in 1..Len(paIn)})
        /\ C24_CumulativeOfRanking(paOut.top, paOut.cumulative)

\* C24 witness: two teams with next-cycle issues, more than PARETO_TOP
\* together; the issue of the second team is ranked first, and an issue with
\* points is cut off, so the total of the ranking is less than that of all
C24_Witness ==
    /\ paOut.returned
    /\ paIn[1] # <<>> /\ paIn[2] # <<>>
    /\ Len(paIn[1]) + Len(paIn[2]) > PARETO_TOP
    /\ Len(paOut.top) = PARETO_TOP
    /\ paOut.top[1].pod = 2
    /\ paOut.top[2].pts = paOut.top[3].pts
    /\ \E e \in C24_EntriesOf(1) :
          e.pts > 0 /\ \A k \in 1..Len(paOut.top) : paOut.top[k] # e

\* D of the cycle handed to calculate_burndown: the whole days between its
\* start and its end, at least 1
C25_D ==
    LET whole == CHOOSE d \in 0..(burnIn.endsAt - burnIn.startsAt) :
                    /\ d * TicksPerDay <= burnIn.endsAt - burnIn.startsAt
                    /\ burnIn.endsAt - burnIn.startsAt < (d + 1) * TicksPerDay
    IN IF whole >= 1 THEN whole ELSE 1

\* tenths is x = num / den (den > 0), or 0 when x is negative, to one decimal
C25_ToOneDecimal(tenths, num, den) ==
    IF num <= 0 THEN tenths = 0
    ELSE /\ 2 * (10 * num - tenths * den) <= den
         /\ 2 * (tenths * den - 10 * num) <= den

\* C25: calculate_burndown returns an empty series for a cycle without scope
\* history; otherwise the point of day index i has
\* remaining = max(0, scope[i] - completed[i]) and, to one decimal,
\* ideal = max(0, scope[0] - (scope[0] / D) * i), D being the whole days
\* between start and end of the cycle, at least 1: ideal is decided by
\* scope[0], D and i alone.
C25_BurndownPoints ==
    burnOut.returned =>
        LET scope == burnIn.scopeHistory
            completed == burnIn.completedScopeHistory
            series == burnOut.series
        IN IF scope = <<>> THEN series = <<>>
           ELSE /\ Len(series) = Len(scope)
                /\ \A k \in 1..Len(series) :
                      /\ series[k].remaining =
                            (IF scope[k] - completed[k] > 0 THEN scope[k] - completed[k]
                             ELSE 0)
                      \* scope[0] - (scope[0] / D) * i = scope[0] * (D - i) / D
                      /\ C25_ToOneDecimal(series[k].ideal,
                                          scope[1] * (C25_D - (k - 1)), C25_D)

\* C25 witness: a cycle of a tick more than three days with a scope of 2 at
\* the start and three recorded points: D is 3, the ideal line reads 2.0,
\* 1.3, 0.7, and the second point has more completed than in scope
C25_Witness ==
    /\ burnOut.returned
    /\ burnIn.endsAt - burnIn.startsAt = 3 * TicksPerDay + 1
    /\ Len(burnOut.series) = 3
    /\ burnIn.scopeHistory[1] = 2
    /\ burnOut.series[1].ideal = 20
    /\ burnOut.series[2].ideal = 13
    /\ burnOut.series[3].ideal = 7
    /\ burnIn.completedScopeHistory[2] > burnIn.scopeHistory[2]
    /\ burnOut.series[2].remaining = 0

\* C26: find_sprint_cycles returns no next cycle without a current one; a
\* current cycle is an element of the list sorted ascending by start time and
\* the next cycle is the element right after it, by window match and by
\* fallback alike; next is None exactly when current is None or the last
\* element of that list.
C26_NextFollowsCurrent ==
    cycRes # <<>> =>
        LET sorted == SortedCycles(cyc.cycles)
            current == cycRes[1]
            next_sprint == cycRes[2]
        IN /\ current = None => next_sprint = None
           /\ current # None =>
                 \E i \in 1..Len(sorted) :
                    /\ sorted[i] = current
                    /\ i < Len(sorted) => next_sprint = sorted[i + 1]
                    /\ i = Len(sorted) => next_sprint = None
           /\ next_sprint = None <=>
                 (current = None \/ current = sorted[Len(sorted)])
           /\ \A i \in 1..(Len(sorted) - 1) : sorted[i].startsAt <= sorted[i + 1].startsAt

\* C26 witness: no cycle matches the window, the fallback has found a current
\* cycle, and a cycle that starts later has been returned as next
C26_Witness ==
    /\ cycRes # <<>>
    /\ WindowMatch(SortedCycles(cyc.cycles), SPRINT_START, SPRINT_END) = 0
    /\ cycRes[1] # None
    /\ cycRes[2] # None
    /\ cycRes[2].startsAt > cycRes[1].startsAt
    /\ cycRes[1].startsAt <= cyc.now /\ cyc.now <= cycRes[1].endsAt

\* C27: in the snapshot fetch_sheets.main writes, access_error is true
\* exactly when the fetch of the initiatives range failed; a fetch that
\* succeeds gives access_error = false, also when it returns no rows.
C27_AccessErrorIffFetchFailed ==
    (child = "fetch_sheets.py" /\ cpc = "exited" /\ wrote) =>
        (sheetsFile.access_error <=> sh.range # "ok")

\* the bucket an issue belongs to: its assignee's name, 'Unassigned' without
\* assignee
C28_BucketOf(issue) ==
    IF issue.assignee = NoAssignee THEN "Unassigned" ELSE issue.assignee

RECURSIVE C28_SumOver(_, _, _)
\* the field of the buckets of the given names, added up
C28_SumOver(engineers, names, field) ==
    IF names = {} THEN 0
    ELSE LET a == CHOOSE a \in names : TRUE
         IN engineers[a][field] + C28_SumOver(engineers, names \ {a}, field)

\* C28: the per-assignee rollup of aggregate_pod_stats conserves the pod
\* totals: every issue is counted in exactly one bucket, that of its assignee
\* or 'Unassigned', so the buckets' total, completed, in_progress, points and
\* done_points add up to the pod's total, completed, in_progress, total_pts
\* and done_pts.
C28_RollupConservesTotals ==
    stOut.returned =>
        LET stats == stOut.stats
            issues == stats.issues
            engineers == stats.engineers
            names == DOMAIN engineers
        IN /\ names = {C28_BucketOf(issues[k]) : k \in 1..Len(issues)}
           /\ \A a \in names :
                 engineers[a].total =
                    Cardinality({k \in 1..Len(issues) : C28_BucketOf(issues[k]) = a})
           /\ C28_SumOver(engineers, names, "total") = stats.total
           /\ C28_SumOver(engineers, names, "completed") = stats.completed
           /\ C28_SumOver(engineers, names, "in_progress") = stats.in_progress
           /\ C28_SumOver(engineers, names, "points") = stats.total_pts
           /\ C28_SumOver(engineers, names, "done_points") = stats.done_pts

\* C28 witness: an issue in progress without assignee and a completed issue
\* of Ann with points have been rolled up into two buckets
C28_Witness ==
    /\ stOut.returned
    /\ stOut.stats.total = 2
    /\ DOMAIN stOut.stats.engineers = {"Unassigned", "Ann"}
    /\ stOut.stats.engineers["Unassigned"].in_progress = 1
    /\ stOut.stats.engineers["Ann"].completed = 1
    /\ stOut.stats.engineers["Ann"].done_points > 0
    /\ stOut.stats.done_pts = stOut.stats.engineers["Ann"].done_points

====
